---- MODULE Spec2Model ----
(***************************************************************************)
(* Model of scripts/bench_token.cpp: the tracked-function registries, the  *)
(* comparison callables they wire, the shared scratch buffer of the        *)
(* random-generation callables, and the orchestrator main -> bench_on_     *)
(* input_data -> bench.                                                    *)
(***************************************************************************)
EXTENDS Integers, Sequences, FiniteSets, TLC

VARIABLES
    sw,          \* build-target switches that are on (SZ_USE_*)
    \* ---- comparison callables applied to one pair of strings
    cmp_a, cmp_c, cmp_cat, cmp_name, cmp_out, cmp_rev,
    \* ---- random generation: static buffer and the callables built so far
    buffer, callables, gen_pc, gen_last, gen_oob, gen_builds, gen_calls,
    \* ---- orchestrator
    pc, argc, tokens, corpus_idx, cat_idx, fn_idx, registry, strings, trace,
    ops, bytes, mismatches, runs, exit_code

cmp_vars == <<cmp_a, cmp_c, cmp_cat, cmp_name, cmp_out, cmp_rev>>
gen_vars == <<buffer, callables, gen_pc, gen_last, gen_oob, gen_builds, gen_calls>>
orch_vars == <<pc, argc, tokens, corpus_idx, cat_idx, fn_idx, registry, strings, trace,
               ops, bytes, mismatches, runs, exit_code>>
vars == <<sw, cmp_vars, gen_vars, orch_vars>>

\* ------------------------------------------------------------------ bounds
MaxLen == 2          \* longest string of a compared pair
MaxTokens == 2       \* most tokens in the dataset
Budget == 2          \* trials one tracked function gets within its time budget
MaxBuilds == 2       \* calls of random_generation_functions
MaxInvokes == 2      \* invocations of generation callables

\* ----------------------------------------------------------------- helpers
Switches == {"HASWELL", "SKYLAKE", "ICE", "NEON"}
CmpBytes == {0, 97, 200}

Min(x, y) == IF x < y THEN x ELSE y

StringsUpTo(S, n) == UNION {[1..k -> S] : k \in 0..n}

Range(s) == {s[i] : i \in 1..Len(s)}

On(flag, entry) == IF flag \in sw THEN <<entry>> ELSE <<>>

\* memcmp(a, b, n): sign of the first differing byte among the first n, bytes
\* compared as unsigned char; 0 when the first n bytes agree.
RECURSIVE MemcmpFrom(_, _, _, _)
MemcmpFrom(a, b, n, i) ==
    IF i > n THEN 0
    ELSE IF a[i] < b[i] THEN -1
    ELSE IF a[i] > b[i] THEN 1
    ELSE MemcmpFrom(a, b, n, i + 1)

Memcmp(a, b, n) == MemcmpFrom(a, b, n, 1)

\* std::string_view::compare: traits compare over the common length, then the
\* lengths decide.
StringViewCompare(a, b) ==
    LET r == Memcmp(a, b, Min(Len(a), Len(b)))
    IN  IF r # 0 THEN r
        ELSE IF Len(a) < Len(b) THEN -1
        ELSE IF Len(a) > Len(b) THEN 1
        ELSE 0

\* sz_order_* kernels (stringzilla.h): byte loop over the common length, then
\* the shorter string orders first.
RECURSIVE sz_order_loop(_, _, _)
sz_order_loop(a, b, i) ==
    IF i > Len(a) \/ i > Len(b)
    THEN (IF Len(a) = Len(b) THEN "equal" ELSE IF Len(a) < Len(b) THEN "less" ELSE "greater")
    ELSE IF a[i] # b[i] THEN (IF a[i] < b[i] THEN "less" ELSE "greater")
    ELSE sz_order_loop(a, b, i + 1)

sz_order(a, b) == sz_order_loop(a, b, 1)

\* sz_equal_* kernels (stringzilla.h): byte-wise equality of two buffers of the
\* same given length.
RECURSIVE sz_equal(_, _, _)
sz_equal(a, b, n) ==
    IF n = 0 THEN TRUE
    ELSE a[n] = b[n] /\ sz_equal(a, b, n - 1)

\* ------------------------------------------------------ ordering_functions
ordering_functions ==
    <<[name |-> "std::string_view.compare", flag |-> FALSE],
      [name |-> "sz_order_serial", flag |-> TRUE]>>
    \o On("HASWELL", [name |-> "sz_order_haswell", flag |-> TRUE])
    \o On("SKYLAKE", [name |-> "sz_order_skylake", flag |-> TRUE])
    \o <<[name |-> "memcmp", flag |-> FALSE]>>

OrderStringView(a, b) ==
    LET order == StringViewCompare(a, b)
    IN  IF order = 0 THEN "equal" ELSE IF order < 0 THEN "less" ELSE "greater"

OrderWrapSz(a, b) == sz_order(a, b)

OrderMemcmpBySizeOnly(a, b) ==
    LET order == Memcmp(a, b, Min(Len(a), Len(b)))
    IN  IF order # 0
        THEN (IF Len(a) = Len(b) THEN (IF order < 0 THEN "less" ELSE "greater")
              ELSE "less")
        ELSE "equal"

OrderMemcmp(a, b) ==
    LET order == Memcmp(a, b, Min(Len(a), Len(b)))
    IN  IF order # 0
        THEN (IF Len(a) = Len(b) THEN (IF order < 0 THEN "less" ELSE "greater")
              ELSE (IF Len(a) < Len(b) THEN "less" ELSE "greater"))
        ELSE "equal"

OrderingCall(name, a, b) ==
    CASE name = "std::string_view.compare" -> OrderStringView(a, b)
      [] name = "memcmp" -> OrderMemcmp(a, b)
      [] OTHER -> OrderWrapSz(a, b)

\* ------------------------------------------------------ equality_functions
equality_functions ==
    <<[name |-> "std::string_view.==", flag |-> FALSE],
      [name |-> "sz_equal_serial", flag |-> TRUE]>>
    \o On("HASWELL", [name |-> "sz_equal_haswell", flag |-> TRUE])
    \o On("SKYLAKE", [name |-> "sz_equal_skylake", flag |-> TRUE])
    \o <<[name |-> "memcmp", flag |-> FALSE]>>

\* operator== of std::string_view: same size and traits compare of 0
EqualStringView(a, b) == Len(a) = Len(b) /\ Memcmp(a, b, Len(a)) = 0

EqualWrapSzNoLength(a, b) == sz_equal(a, b, Min(Len(a), Len(b)))

EqualWrapSz(a, b) == Len(a) = Len(b) /\ sz_equal(a, b, Len(a))

EqualMemcmp(a, b) == Len(a) = Len(b) /\ Memcmp(a, b, Len(a)) = 0

EqualityCall(name, a, b) ==
    CASE name = "std::string_view.==" -> EqualStringView(a, b)
      [] name = "memcmp" -> EqualMemcmp(a, b)
      [] OTHER -> EqualWrapSz(a, b)

\* ------------------------------------------------------ checksum_functions
checksum_functions_reference_flagged ==
    <<[name |-> "std::accumulate", flag |-> TRUE],
      [name |-> "sz_checksum_serial", flag |-> TRUE]>>
    \o On("HASWELL", [name |-> "sz_checksum_haswell", flag |-> TRUE])
    \o On("SKYLAKE", [name |-> "sz_checksum_skylake", flag |-> TRUE])
    \o On("ICE", [name |-> "sz_checksum_ice", flag |-> TRUE])
    \o On("NEON", [name |-> "sz_checksum_neon", flag |-> TRUE])

checksum_functions ==
    <<[name |-> "std::accumulate", flag |-> FALSE],
      [name |-> "sz_checksum_serial", flag |-> TRUE]>>
    \o On("HASWELL", [name |-> "sz_checksum_haswell", flag |-> TRUE])
    \o On("SKYLAKE", [name |-> "sz_checksum_skylake", flag |-> TRUE])
    \o On("ICE", [name |-> "sz_checksum_ice", flag |-> TRUE])
    \o On("NEON", [name |-> "sz_checksum_neon", flag |-> TRUE])

\* std::accumulate over the bytes as unsigned char into a std::size_t; a sum
\* of fewer than 2^56 bytes cannot wrap the 64-bit accumulator
RECURSIVE ChecksumAccumulate(_)
ChecksumAccumulate(s) ==
    IF s = <<>> THEN 0
    ELSE ChecksumAccumulate(Tail(s)) + Head(s)

\* sz_checksum_* kernels (stringzilla.h): sum of the byte values
RECURSIVE sz_checksum(_, _)
sz_checksum(s, n) ==
    IF n = 0 THEN 0
    ELSE sz_checksum(s, n - 1) + s[n]

ChecksumCall(name, s) ==
    IF name = "std::accumulate" THEN ChecksumAccumulate(s)
    ELSE sz_checksum(s, Len(s))

\* ------------------------------------------------------- hashing_functions
hashing_functions ==
    <<[name |-> "sz_hash_serial", flag |-> FALSE],
      [name |-> "std::hash", flag |-> FALSE]>>

\* the two hash kernels are opaque and unrelated to one another
RECURSIVE sz_hash(_, _)
sz_hash(s, n) ==
    IF n = 0 THEN 7
    ELSE (sz_hash(s, n - 1) * 31 + s[n]) % (2 ^ 16)

RECURSIVE StdHash(_)
StdHash(s) ==
    IF s = <<>> THEN 3
    ELSE (StdHash(Tail(s)) * 33 + Head(s) + 1) % (2 ^ 16)

HashingCall(name, s) ==
    IF name = "std::hash" THEN StdHash(s) ELSE sz_hash(s, Len(s))

\* ======================================================================
\* Idle values of the parts a specification does not exercise
\* ======================================================================
CmpIdle ==
    /\ cmp_a = <<>> /\ cmp_c = <<>> /\ cmp_cat = "none" /\ cmp_name = "none"
    /\ cmp_out = "none" /\ cmp_rev = "none"

GenIdle ==
    /\ buffer = <<>> /\ callables = {} /\ gen_pc = "ok"
    /\ gen_last = [entry |-> "none"] /\ gen_oob = FALSE
    /\ gen_builds = 0 /\ gen_calls = 0

OrchIdle ==
    /\ pc = "idle" /\ argc = 1 /\ tokens = <<>> /\ corpus_idx = 0 /\ cat_idx = 0
    /\ fn_idx = 0 /\ registry = <<>> /\ strings = <<>> /\ trace = <<>>
    /\ ops = <<>> /\ bytes = <<>> /\ mismatches = <<>> /\ runs = <<>>
    /\ exit_code = -1

\* ======================================================================
\* Comparison callables on one pair of strings
\* ======================================================================
InitCmp ==
    /\ sw \in SUBSET Switches
    /\ cmp_a \in StringsUpTo(CmpBytes, MaxLen)
    /\ cmp_c \in StringsUpTo(CmpBytes, MaxLen)
    /\ cmp_cat = "none" /\ cmp_name = "none" /\ cmp_out = "none" /\ cmp_rev = "none"
    /\ GenIdle /\ OrchIdle

ApplyOrdering ==
    \E k \in 1..Len(ordering_functions) :
        /\ cmp_cat' = "ordering"
        /\ cmp_name' = ordering_functions[k].name
        /\ cmp_out' = OrderingCall(ordering_functions[k].name, cmp_a, cmp_c)
        /\ cmp_rev' = OrderingCall(ordering_functions[k].name, cmp_c, cmp_a)
        /\ UNCHANGED <<sw, cmp_a, cmp_c, gen_vars, orch_vars>>

ApplyEquality ==
    \E k \in 1..Len(equality_functions) :
        /\ cmp_cat' = "equality"
        /\ cmp_name' = equality_functions[k].name
        /\ cmp_out' = EqualityCall(equality_functions[k].name, cmp_a, cmp_c)
        /\ cmp_rev' = EqualityCall(equality_functions[k].name, cmp_c, cmp_a)
        /\ UNCHANGED <<sw, cmp_a, cmp_c, gen_vars, orch_vars>>

NextCmp == ApplyOrdering \/ ApplyEquality

SpecCmp == InitCmp /\ [][NextCmp]_vars

\* Lexicographic byte-wise comparison, stated from its definition: the first
\* differing position decides; with none, the shorter string is less.
FirstDiff(a, c) ==
    {i \in 1..Min(Len(a), Len(c)) : a[i] # c[i] /\ \A j \in 1..(i - 1) : a[j] = c[j]}

LexOrder(a, c) ==
    IF a = c THEN "equal"
    ELSE IF FirstDiff(a, c) # {}
         THEN (LET i == CHOOSE i \in FirstDiff(a, c) : TRUE
               IN  IF a[i] < c[i] THEN "less" ELSE "greater")
         ELSE (IF Len(a) < Len(c) THEN "less" ELSE "greater")

\* C1: every entry of ordering_functions() returns, on every pair (a, c), the
\* tri-state result of lexicographic byte-wise comparison of a and c.
C1_OrderingIsLexicographic ==
    cmp_cat = "ordering" => cmp_out = LexOrder(cmp_a, cmp_c)

\* C2: every entry of equality_functions() returns true exactly when a and c
\* have the same length and the same bytes; in particular true on (s, s).
C2_EqualityMatchesBaseline ==
    cmp_cat = "equality" => cmp_out = (cmp_a = cmp_c)

C2_Witness ==
    /\ cmp_cat = "equality" /\ cmp_name = "sz_equal_serial"
    /\ Len(cmp_a) < Len(cmp_c) /\ cmp_a # <<>> /\ cmp_out = FALSE

\* C8: for every entry of ordering_functions(), less on (a, c) implies greater
\* on (c, a), and the result on (s, s) is equal.
C8_OrderingAntisymmetric ==
    cmp_cat = "ordering" =>
        /\ (cmp_out = "less" => cmp_rev = "greater")
        /\ (cmp_a = cmp_c => cmp_out = "equal")

C8_Witness ==
    /\ cmp_cat = "ordering" /\ cmp_name = "memcmp"
    /\ Len(cmp_a) < Len(cmp_c) /\ cmp_out = "less" /\ cmp_rev = "greater"

\* ======================================================================
\* random_generation_functions and the callables it returns
\* ======================================================================
GenLengths == {1, 2, 32}
AlphabetSizes == {1, 3, 256, 257}
Seeds == {0, 5}

\* the alphabet handed to a callable: N lowercase letters (repeating past 26)
Alphabet(N) == [i \in 1..N |-> 97 + ((i - 1) % 26)]

\* the i-th value std::rand() yields after a given seed; 0 .. RAND_MAX
Rand(seed, i) == (seed * 1103 + i * 12345 + 255) % 32768

\* std::vector<char>::resize: keeps the first n elements, zero-fills new ones
Resize(buf, n) == [i \in 1..n |-> IF i <= Len(buf) THEN buf[i] ELSE 0]

BufferAfterBuildAlwaysResize(buf, token_length) == Resize(buf, token_length)

\* `if (buffer.size() < token_length) buffer.resize(token_length);`
BufferAfterBuild(buf, token_length) ==
    IF Len(buf) < token_length THEN Resize(buf, token_length) ELSE buf

\* buffer[i] = f(i) for i = 0 .. token_length-1 (1-based here); an index past
\* the end of the vector is out of bounds
Fill(buf, token_length, src) ==
    [i \in 1..Len(buf) |-> IF i <= token_length THEN src[i] ELSE buf[i]]

\* static_cast<std::uint8_t>(alphabet.size())
max_alphabet_size(N) == N % 256

\* randomize_string (test.hpp) and sz::randomize (stringzilla.hpp): fill
\* exactly `length` bytes, each drawn from the alphabet
randomize_string(buf, length, N, seed) ==
    LET alphabet == Alphabet(N)
        pick == [i \in 1..length |-> alphabet[(Rand(seed, i) % N) + 1]]
    IN  Fill(buf, length, pick)

random_generation_functions(token_length) ==
    /\ gen_pc = "ok"
    /\ gen_builds < MaxBuilds
    /\ gen_builds' = gen_builds + 1
    /\ buffer' = BufferAfterBuild(buffer, token_length)
    /\ callables' = callables \cup {token_length}
    /\ UNCHANGED <<sw, gen_pc, gen_last, gen_oob, gen_calls, cmp_vars, orch_vars>>

Returned(entry, token_length, N) ==
    [entry |-> entry, tl |-> token_length, alphabet |-> N,
     ret |-> token_length, written |-> token_length]

\* "std::rand % uint8": alphabet[std::rand() % max_alphabet_size]; the
\* remainder by an 8-bit size of 0 is undefined: the process traps, or the
\* bytes stored come from wherever the bogus index points
InvokeStdRand(token_length, N, seed) ==
    /\ gen_pc = "ok" /\ gen_calls < MaxInvokes
    /\ token_length \in callables
    /\ gen_calls' = gen_calls + 1
    /\ gen_oob' = (gen_oob \/ token_length > Len(buffer))
    /\ IF max_alphabet_size(N) # 0
       THEN LET alphabet == Alphabet(N)
                pick == [i \in 1..token_length |->
                            alphabet[(Rand(seed, i) % max_alphabet_size(N)) + 1]]
            IN  /\ buffer' = Fill(buffer, token_length, pick)
                /\ gen_last' = Returned("std::rand % uint8", token_length, N)
                /\ gen_pc' = "ok"
       ELSE \/ /\ gen_pc' = "crashed"
               /\ buffer' = buffer
               /\ gen_last' = [entry |-> "std::rand % uint8", tl |-> token_length,
                               alphabet |-> N, ret |-> -1, written |-> 0]
            \/ \E garbage \in {0, 97} :
                 LET pick == [i \in 1..token_length |-> garbage]
                 IN  /\ buffer' = Fill(buffer, token_length, pick)
                     /\ gen_last' = Returned("std::rand % uint8", token_length, N)
                     /\ gen_pc' = "ok"
    /\ UNCHANGED <<sw, callables, gen_builds, cmp_vars, orch_vars>>

\* "std::uniform_int<uint8>": randomize_string(buffer.data(), token_length, ...)
InvokeUniformInt(token_length, N, seed) ==
    /\ gen_pc = "ok" /\ gen_calls < MaxInvokes
    /\ token_length \in callables
    /\ gen_calls' = gen_calls + 1
    /\ gen_oob' = (gen_oob \/ token_length > Len(buffer))
    /\ buffer' = randomize_string(buffer, token_length, N, seed)
    /\ gen_last' = Returned("std::uniform_int<uint8>", token_length, N)
    /\ UNCHANGED <<sw, callables, gen_pc, gen_builds, cmp_vars, orch_vars>>

\* "sz::randomize": a span over the first token_length bytes of the buffer
InvokeSzRandomize(token_length, N, seed) ==
    /\ gen_pc = "ok" /\ gen_calls < MaxInvokes
    /\ token_length \in callables
    /\ gen_calls' = gen_calls + 1
    /\ gen_oob' = (gen_oob \/ token_length > Len(buffer))
    /\ buffer' = randomize_string(buffer, token_length, N, seed + 1)
    /\ gen_last' = Returned("sz::randomize", token_length, N)
    /\ UNCHANGED <<sw, callables, gen_pc, gen_builds, cmp_vars, orch_vars>>

InitGen ==
    /\ sw = {}
    /\ GenIdle /\ CmpIdle /\ OrchIdle

NextGen ==
    \/ \E n \in GenLengths : random_generation_functions(n)
    \/ \E n \in GenLengths, N \in AlphabetSizes, seed \in Seeds : InvokeStdRand(n, N, seed)
    \/ \E n \in GenLengths, N \in AlphabetSizes, seed \in Seeds : InvokeUniformInt(n, N, seed)
    \/ \E n \in GenLengths, N \in AlphabetSizes, seed \in Seeds : InvokeSzRandomize(n, N, seed)

SpecGen == InitGen /\ [][NextGen]_vars

\* C7: each generation callable writes exactly token_length bytes, all of them
\* members of the alphabet, and returns token_length, for every token_length
\* and every non-empty alphabet of any byte length.
C7_GenerationFillsFromAlphabet ==
    gen_last.entry # "none" =>
        /\ gen_pc = "ok"
        /\ gen_last.written = gen_last.tl
        /\ gen_last.ret = gen_last.tl
        /\ \A i \in 1..gen_last.tl :
               i <= Len(buffer) /\ buffer[i] \in Range(Alphabet(gen_last.alphabet))

\* C10: the scratch buffer never shrinks and is at least as long as every
\* captured token_length, so an invocation writes only indices below its
\* token_length, never past the end, and leaves the other bytes unchanged.
C10_BufferFrame ==
    [][/\ Len(buffer') >= Len(buffer)
       /\ \A tl \in callables' : Len(buffer') >= tl
       /\ ~gen_oob'
       /\ gen_calls' # gen_calls =>
              \A i \in 1..Len(buffer) : i > gen_last'.tl => buffer'[i] = buffer[i]]_vars

C10_Witness ==
    /\ gen_calls = 2 /\ gen_builds = 2 /\ gen_last.tl = 1 /\ Len(buffer) = 32
    /\ callables = {1, 32} /\ buffer[1] # buffer[2] /\ buffer[2] # 0 /\ buffer[32] # 0

\* ======================================================================
\* Orchestrator: main -> bench_on_input_data -> bench -> runners
\* ======================================================================
Rep(b, n) == [i \in 1..n |-> b]

\* the words the dataset may hold
TokenPool == {<<97>>, <<98>>, <<97, 98>>, <<99, 97, 116>>, Rep(97, 16), Rep(122, 32)}

RECURSIVE Join(_)
Join(toks) ==
    IF toks = <<>> THEN <<>>
    ELSE IF Len(toks) = 1 THEN toks[1]
    ELSE toks[1] \o <<32>> \o Join(Tail(toks))

\* prepare_benchmark_environment: the text, its lines and its tokens
dataset ==
    [tokens |-> tokens,
     lines |-> IF tokens = <<>> THEN <<>> ELSE <<Join(tokens)>>,
     text |-> Join(tokens)]

filter_by_length_at_most(strs, n) ==
    SelectSeq(strs, LAMBDA str : Len(str) <= n)

\* filter_by_length (bench.hpp): push back, in order, the strings of size n
RECURSIVE filter_by_length(_, _)
filter_by_length(strs, n) ==
    IF strs = <<>> THEN <<>>
    ELSE (IF Len(Head(strs)) = n THEN <<Head(strs)>> ELSE <<>>)
         \o filter_by_length(Tail(strs), n)

\* the corpora bench_on_input_data hands to bench, in call order
CorpusOrderLinesFirst ==
    <<[src |-> "lines", len |-> 0], [src |-> "tokens", len |-> 0],
      [src |-> "text", len |-> 0]>>
    \o [i \in 1..10 |->
          [src |-> "filtered", len |-> <<1, 2, 3, 4, 5, 6, 7, 8, 16, 32>>[i]]]

CorpusOrder ==
    <<[src |-> "tokens", len |-> 0], [src |-> "lines", len |-> 0],
      [src |-> "text", len |-> 0]>>
    \o [i \in 1..10 |->
          [src |-> "filtered", len |-> <<1, 2, 3, 4, 5, 6, 7, 8, 16, 32>>[i]]]

CorpusOf(c) ==
    CASE c.src = "tokens" -> dataset.tokens
      [] c.src = "lines" -> dataset.lines
      [] c.src = "text" -> <<dataset.text>>
      [] OTHER -> filter_by_length(dataset.tokens, c.len)

\* the runner calls of bench, in call order
BenchCategoriesNoOrdering ==
    <<"checksum", "hashing", "equality",
      "std::string -> std::string_view", "sz::string -> std::string_view">>

BenchCategories ==
    <<"checksum", "hashing", "equality", "ordering",
      "std::string -> std::string_view", "sz::string -> std::string_view">>

\* bench_dereferencing: one unflagged entry returning s.size()
bench_dereferencing(name) == <<[name |-> name, flag |-> FALSE]>>

RegistryOf(cat) ==
    CASE cat = "checksum" -> checksum_functions
      [] cat = "hashing" -> hashing_functions
      [] cat = "equality" -> equality_functions
      [] cat = "ordering" -> ordering_functions
      [] OTHER -> bench_dereferencing(cat)

BenchReturnsEarlyNever(strs) == FALSE

\* `if (strings.size() == 0) return;`
BenchReturnsEarly(strs) == Len(strs) = 0

\* ----------------------------------------------- runners (bench.hpp)
IsBinary(cat) == cat \in {"equality", "ordering"}

Output(cat, name, a, b) ==
    CASE cat = "checksum" -> ChecksumCall(name, a)
      [] cat = "hashing" -> HashingCall(name, a)
      [] cat = "equality" -> EqualityCall(name, a, b)
      [] cat = "ordering" -> OrderingCall(name, a, b)
      [] OTHER -> Len(a)

\* index of the entry marked as the reference, 0 when none is marked
BaselineIndex(reg) ==
    IF \E k \in 1..Len(reg) : reg[k].flag
    THEN CHOOSE k \in 1..Len(reg) : reg[k].flag /\ \A j \in 1..(k - 1) : ~reg[j].flag
    ELSE 0

\* trial t of a pass: element t (wrapping around), paired with its neighbour
TrialA(strs, t) == strs[((t - 1) % Len(strs)) + 1]
TrialB(strs, t) == strs[(t % Len(strs)) + 1]

Trials(strs) == IF strs = <<>> THEN {} ELSE 1..Budget

TrialCost(cat, strs, t) ==
    Len(TrialA(strs, t)) + (IF IsBinary(cat) THEN Len(TrialB(strs, t)) ELSE 0)

\* bytes accumulated over the first t trials
RECURSIVE BytesUpTo(_, _, _)
BytesUpTo(cat, strs, t) ==
    IF t = 0 THEN 0
    ELSE BytesUpTo(cat, strs, t - 1) + TrialCost(cat, strs, t)

RunBytes(cat, strs) == BytesUpTo(cat, strs, Cardinality(Trials(strs)))

RunMismatches(cat, reg, k, strs) ==
    LET base == BaselineIndex(reg)
    IN  IF base = 0 \/ base = k THEN 0
        ELSE Cardinality({t \in Trials(strs) :
                 Output(cat, reg[k].name, TrialA(strs, t), TrialB(strs, t))
                 # Output(cat, reg[base].name, TrialA(strs, t), TrialB(strs, t))})

Bump(f, k, d) == [f EXCEPT ![k] = @ + d]

\* ----------------------------------------------------------- actions
NumCorpora == Len(CorpusOrder)

InitOrch ==
    /\ sw \in SUBSET Switches
    /\ argc \in {1, 2}
    /\ tokens \in StringsUpTo(TokenPool, MaxTokens)
    /\ pc = "main" /\ corpus_idx = 0 /\ cat_idx = 0 /\ fn_idx = 0
    /\ registry = <<>> /\ strings = <<>> /\ trace = <<>>
    /\ ops = [k \in 1..NumCorpora |-> 0]
    /\ bytes = [k \in 1..NumCorpora |-> 0]
    /\ mismatches = [k \in 1..NumCorpora |-> 0]
    /\ runs = [k \in 1..NumCorpora |-> 0]
    /\ exit_code = -1
    /\ CmpIdle /\ GenIdle

\* main with argc < 2: bench_on_synthetic_data does nothing
MainSynthetic ==
    /\ pc = "main" /\ argc < 2
    /\ pc' = "return"
    /\ UNCHANGED <<sw, argc, tokens, corpus_idx, cat_idx, fn_idx, registry, strings,
                   trace, ops, bytes, mismatches, runs, exit_code, cmp_vars, gen_vars>>

\* main with an argument: bench_on_input_data reaches its first bench call
MainInput ==
    /\ pc = "main" /\ argc >= 2
    /\ pc' = "bench" /\ corpus_idx' = 1
    /\ strings' = CorpusOf(CorpusOrder[1])
    /\ UNCHANGED <<sw, argc, tokens, cat_idx, fn_idx, registry,
                   trace, ops, bytes, mismatches, runs, exit_code, cmp_vars, gen_vars>>

\* bench returns to bench_on_input_data, which calls it on the next corpus or
\* returns to main
BenchReturn ==
    IF corpus_idx < NumCorpora
    THEN /\ pc' = "bench" /\ corpus_idx' = corpus_idx + 1
         /\ strings' = CorpusOf(CorpusOrder[corpus_idx + 1])
    ELSE /\ pc' = "return" /\ UNCHANGED <<corpus_idx, strings>>

StartCategory(c) ==
    /\ pc' = "run" /\ cat_idx' = c /\ fn_idx' = 1
    /\ registry' = RegistryOf(BenchCategories[c])
    /\ trace' = Append(trace, <<CorpusOrder[corpus_idx], BenchCategories[c]>>)

BenchEmpty ==
    /\ pc = "bench" /\ BenchReturnsEarly(strings)
    /\ BenchReturn
    /\ UNCHANGED <<sw, argc, tokens, cat_idx, fn_idx, registry,
                   trace, ops, bytes, mismatches, runs, exit_code, cmp_vars, gen_vars>>

BenchStart ==
    /\ pc = "bench" /\ ~BenchReturnsEarly(strings)
    /\ StartCategory(1)
    /\ UNCHANGED <<sw, argc, tokens, corpus_idx, strings,
                   ops, bytes, mismatches, runs, exit_code, cmp_vars, gen_vars>>

\* one tracked function of the current registry gets its timed pass
Measure ==
    LET cat == BenchCategories[cat_idx]
    IN  /\ ops' = Bump(ops, corpus_idx, Cardinality(Trials(strings)))
        /\ bytes' = Bump(bytes, corpus_idx, RunBytes(cat, strings))
        /\ mismatches' = Bump(mismatches, corpus_idx,
                              RunMismatches(cat, registry, fn_idx, strings))
        /\ runs' = Bump(runs, corpus_idx, 1)

RunTracked ==
    /\ pc = "run" /\ fn_idx < Len(registry)
    /\ Measure
    /\ fn_idx' = fn_idx + 1
    /\ UNCHANGED <<sw, argc, tokens, pc, corpus_idx, cat_idx, registry, strings,
                   trace, exit_code, cmp_vars, gen_vars>>

\* the last tracked function of a runner call; bench goes on to its next call
RunLastTracked ==
    /\ pc = "run" /\ fn_idx = Len(registry) /\ cat_idx < Len(BenchCategories)
    /\ Measure
    /\ StartCategory(cat_idx + 1)
    /\ UNCHANGED <<sw, argc, tokens, corpus_idx, strings, exit_code, cmp_vars, gen_vars>>

\* the last tracked function of the last runner call of bench
RunLastOfBench ==
    /\ pc = "run" /\ fn_idx = Len(registry) /\ cat_idx = Len(BenchCategories)
    /\ Measure
    /\ BenchReturn
    /\ UNCHANGED <<sw, argc, tokens, cat_idx, fn_idx, registry, trace, exit_code,
                   cmp_vars, gen_vars>>

\* main prints "All benchmarks passed." and returns 0
MainReturn ==
    /\ pc = "return"
    /\ pc' = "done" /\ exit_code' = 0
    /\ UNCHANGED <<sw, argc, tokens, corpus_idx, cat_idx, fn_idx, registry, strings,
                   trace, ops, bytes, mismatches, runs, cmp_vars, gen_vars>>

Next ==
    \/ MainSynthetic \/ MainInput \/ BenchEmpty \/ BenchStart
    \/ RunTracked \/ RunLastTracked \/ RunLastOfBench \/ MainReturn

Spec == InitOrch /\ [][Next]_vars

\* datasets of the runs whose completion is checked
FairTokenPool == {<<97>>, <<97, 98>>}

InitFair == InitOrch /\ tokens \in StringsUpTo(FairTokenPool, MaxTokens)

\* single-threaded and synchronous: the process always takes its next step
FairSpec == InitFair /\ [][Next]_vars /\ WF_vars(Next)

\* ----------------------------------------------------------------------
\* Properties of the orchestrator
\* ----------------------------------------------------------------------
Category == BenchCategories[cat_idx]

FlaggedCount(reg) == Cardinality({k \in 1..Len(reg) : reg[k].flag})

InRegistryOfClaim ==
    pc = "run" /\ Category \in {"checksum", "hashing", "equality", "ordering"}

\* C3 (as stated): in each of the four registries, for every combination of
\* the build switches, exactly one entry has its flag set.
C3_ExactlyOneFlagged ==
    InRegistryOfClaim => FlaggedCount(registry) = 1

\* C3 (amended): hashing_functions() flags no entry; checksum_functions()
\* flags sz_checksum_serial and one entry per enabled switch; equality_ and
\* ordering_functions() flag the serial entry and one per enabled switch among
\* HASWELL and SKYLAKE; the first (standard library) entry is never flagged.
C3_FlaggedPerVariant ==
    InRegistryOfClaim =>
        /\ ~registry[1].flag
        /\ FlaggedCount(registry) =
             CASE Category = "hashing" -> 0
               [] Category = "checksum" -> 1 + Cardinality(sw)
               [] OTHER -> 1 + Cardinality(sw \cap {"HASWELL", "SKYLAKE"})

C3_Witness ==
    /\ pc = "run" /\ Category = "checksum" /\ sw = Switches
    /\ FlaggedCount(registry) = 5 /\ Len(registry) = 6

SourceNonEmpty(c) ==
    CASE c.src = "tokens" -> tokens # <<>>
      [] c.src = "lines" -> tokens # <<>>
      [] c.src = "text" -> TRUE
      [] OTHER -> \E i \in 1..Len(tokens) : Len(tokens[i]) = c.len

TrackedPerCorpus ==
    Len(checksum_functions) + Len(hashing_functions) + Len(equality_functions)
    + Len(ordering_functions) + 2

AllBenchmarked ==
    \A k \in 1..NumCorpora :
        SourceNonEmpty(CorpusOrder[k]) => runs[k] = TrackedPerCorpus

\* C4: a mismatch between a candidate and the baseline is counted and the run
\* goes on: every tracked function of every category and corpus is still
\* benchmarked and the process completes with exit code 0.
C4_MismatchNeverAborts ==
    /\ [][mismatches' # mismatches =>
            /\ pc' \in {"run", "bench", "return"}
            /\ exit_code' = exit_code]_vars
    /\ <>(pc = "done" /\ exit_code = 0 /\ (argc >= 2 => AllBenchmarked))

C4_Witness ==
    /\ pc = "done" /\ exit_code = 0 /\ argc >= 2 /\ AllBenchmarked
    /\ \E k \in 1..NumCorpora : mismatches[k] > 0

\* C5: bench on an empty corpus returns at once: no category is started, no
\* operation, byte or mismatch is counted, and the later corpora still run.
C5_EmptyCorpusIsNoOp ==
    \A k \in 1..NumCorpora :
        (argc >= 2 /\ ~SourceNonEmpty(CorpusOrder[k])) =>
            /\ ops[k] = 0 /\ bytes[k] = 0 /\ mismatches[k] = 0 /\ runs[k] = 0
            /\ \A i \in 1..Len(trace) : trace[i][1] # CorpusOrder[k]
            /\ pc = "done" =>
                 \A j \in (k + 1)..NumCorpora :
                     SourceNonEmpty(CorpusOrder[j]) => runs[j] > 0

C5_Witness ==
    /\ pc = "done" /\ argc >= 2
    /\ \E k \in 1..NumCorpora, j \in 1..NumCorpora :
         /\ k < j /\ ~SourceNonEmpty(CorpusOrder[k]) /\ runs[k] = 0
         /\ SourceNonEmpty(CorpusOrder[j]) /\ runs[j] > 0

\* C6: filter_by_length(corpus, L) is the subsequence of the elements of
\* length L in their original order, and filtering it again changes nothing.
C6_FilterByLength ==
    (pc \in {"bench", "run"} /\ CorpusOrder[corpus_idx].src = "filtered") =>
        LET L == CorpusOrder[corpus_idx].len
        IN  /\ strings = SelectSeq(tokens, LAMBDA t : Len(t) = L)
            /\ filter_by_length(strings, L) = strings

C6_Witness ==
    /\ pc = "run" /\ CorpusOrder[corpus_idx].src = "filtered"
    /\ strings # <<>> /\ strings # tokens /\ Len(tokens) = 2

ExpectedSources ==
    <<[src |-> "tokens", len |-> 0], [src |-> "lines", len |-> 0],
      [src |-> "text", len |-> 0],
      [src |-> "filtered", len |-> 1], [src |-> "filtered", len |-> 2],
      [src |-> "filtered", len |-> 3], [src |-> "filtered", len |-> 4],
      [src |-> "filtered", len |-> 5], [src |-> "filtered", len |-> 6],
      [src |-> "filtered", len |-> 7], [src |-> "filtered", len |-> 8],
      [src |-> "filtered", len |-> 16], [src |-> "filtered", len |-> 32]>>

ExpectedCategories ==
    <<"checksum", "hashing", "equality", "ordering",
      "std::string -> std::string_view", "sz::string -> std::string_view">>

ExpectedTrace ==
    LET S == SelectSeq(ExpectedSources, SourceNonEmpty)
    IN  [i \in 1..(6 * Len(S)) |->
           <<S[((i - 1) \div 6) + 1], ExpectedCategories[((i - 1) % 6) + 1]>>]

IsPrefix(s, t) == Len(s) <= Len(t) /\ \A i \in 1..Len(s) : s[i] = t[i]

\* C9: the corpora are visited in the order tokens, lines, text, then tokens
\* of lengths 1..8, 16, 32; within a non-empty corpus the categories run one
\* after another in the fixed order, each finished before the next starts.
C9_FixedSequentialOrder ==
    [][/\ IsPrefix(trace', ExpectedTrace)
       /\ (pc' = "done" /\ argc >= 2) => trace' = ExpectedTrace
       /\ trace' # trace =>
            /\ Len(trace') = Len(trace) + 1
            /\ pc = "run" => fn_idx = Len(registry)
            /\ pc # "run" => pc = "bench" /\ trace'[Len(trace')][2] = "checksum"]_vars

C9_Witness ==
    /\ pc = "done" /\ Len(trace) = 30
    /\ trace[30] = <<[src |-> "filtered", len |-> 32], "sz::string -> std::string_view">>
    /\ trace[19] = <<[src |-> "filtered", len |-> 16], "checksum">>

====
